---- MODULE Spec2Model ----
(***************************************************************************)
(* A model of src/app.py: the ONNX embedding service.                      *)
(*                                                                         *)
(*   Spec       the module-level startup code (lines 15-35) run by several *)
(*              processes that share one cache directory;                  *)
(*   SpecServe  the request handlers of one started process;               *)
(*   SpecPool   mean_pooling applied to synthetic tensors.                 *)
(*                                                                         *)
(* Python strings are sequences of one-character strings.                  *)
(***************************************************************************)
EXTENDS Integers, Sequences, FiniteSets, TLC

VARIABLES
    pc,            \* each process's position in the module-level code
    model_name,    \* each process's model_name            (line 15)
    USE_E5_PREFIX, \* each process's USE_E5_PREFIX         (line 16)
    tokenizer,     \* each process's tokenizer             (line 22)
    onnx_path,     \* each process's onnx_path             (line 26)
    model,         \* each process's model                 (lines 29, 32)
    fs,            \* the shared cache directory: path -> files of the path
    saved,         \* files save_pretrained has written so far, per process
    read,          \* what from_pretrained(onnx_path) found, per process
    conversions,   \* calls of from_pretrained(export=True), per process
    persisted,     \* <<name, path>> of every startup that reached line 35
    seen,          \* persisted as it was when the process started
    killed,        \* processes that were killed or raised during startup
    req,           \* the request handled last: route, JSON body, injected fault
    resp,          \* the response to it
    calls,         \* what each get_embeddings call of it handed to the tokenizer
    token_embeddings, \* mean_pooling's first argument
    attention_mask,   \* mean_pooling's second argument
    pooled            \* what mean_pooling returned

startVars == <<pc, model_name, USE_E5_PREFIX, tokenizer, onnx_path, model, fs,
               saved, read, conversions, persisted, seen, killed>>
serveVars == <<req, resp, calls>>
poolVars == <<token_embeddings, attention_mask, pooled>>
vars == <<startVars, serveVars, poolVars>>

(***************************************************************************)
(* Bounds.                                                                 *)
(***************************************************************************)
NProcs == 2

Procs == 1..NProcs

(***************************************************************************)
(* Strings.                                                                *)
(***************************************************************************)
\* str.replace(old, new) for a one-character old
Replace(s, old, new) == [i \in 1..Len(s) |-> IF s[i] = old THEN new ELSE s[i]]

\* str.lower() over the characters the model uses
Lower(s) == [i \in 1..Len(s) |-> IF s[i] = "E" THEN "e" ELSE s[i]]

\* sub in s
Contains(s, sub) ==
    \E i \in 1..(Len(s) - Len(sub) + 1) : SubSeq(s, i, i + Len(sub) - 1) = sub

\* line 14, shortened: an organisation, a slash and a name with "e5" in it
DEFAULT_MODEL == <<"m", "/", "e", "5">>

\* the values of EMBEDDING_MODEL the model draws from: the default, the same
\* name in capitals, a name with an underscore where the default has the
\* slash, and a name without "e5"
ModelIds == {DEFAULT_MODEL, <<"m", "/", "E", "5">>, <<"m", "_", "e", "5">>, <<"b", "g", "e">>}

CacheRoot == <<"/", "a", "p", "p", "/", "c", "a", "c", "h", "e", "/", "o", "n", "n", "x", "/">>

\* line 26: f"/app/cache/onnx/{model_name.replace('/', '_')}"
OnnxPath(name) == CacheRoot \o Replace(name, "/", "_")

\* line 16: "e5" in model_name.lower()
UseE5Prefix(name) == Contains(Lower(name), <<"e", "5">>)

(***************************************************************************)
(* The cache directory.  A path that exists holds the slots of the files   *)
(* save_pretrained writes; each holds the name of the model whose export   *)
(* wrote it, or NoFile.                                                    *)
(***************************************************************************)
NoFile == <<>>
NoRead == <<>>
NoModel == <<>>
NoName == <<>>

\* what save_pretrained writes, in the order it writes it
ArtifactFiles == <<"config.json", "model.onnx">>
NFiles == Len(ArtifactFiles)

NoRequest == [route |-> "none"]
NoResponse == [status |-> 0]
NotCalled == [called |-> FALSE]

EmptyDir == [k \in 1..NFiles |-> NoFile]

\* the files save_pretrained writes for the export of `name`
Artifact(name) == [k \in 1..NFiles |-> name]

\* os.path.exists(path)
Exists(path) == path \in DOMAIN fs

Complete(files) == \A k \in 1..NFiles : files[k] # NoFile

\* line 27 with the path built from the name as given, '/' kept
CachePresentRaw(p) == Exists(CacheRoot \o model_name[p])

\* line 27: if os.path.exists(onnx_path)
CachePresent(p) == Exists(onnx_path[p])

Init ==
    /\ pc = [p \in Procs |-> "idle"]
    /\ model_name = [p \in Procs |-> NoName]
    /\ USE_E5_PREFIX = [p \in Procs |-> FALSE]
    /\ tokenizer = [p \in Procs |-> NoName]
    /\ onnx_path = [p \in Procs |-> <<>>]
    /\ model = [p \in Procs |-> NoModel]
    /\ fs = <<>>
    /\ saved = [p \in Procs |-> 0]
    /\ read = [p \in Procs |-> NoRead]
    /\ conversions = [p \in Procs |-> 0]
    /\ persisted = {}
    /\ seen = [p \in Procs |-> {}]
    /\ killed = {}
    /\ req = NoRequest
    /\ resp = NoResponse
    /\ calls = <<>>
    /\ token_embeddings = <<>>
    /\ attention_mask = <<>>
    /\ pooled = NotCalled

(***************************************************************************)
(* Startup: the module-level code, one action per statement that touches   *)
(* the cache directory.                                                    *)
(***************************************************************************)
\* lines 15-26: read EMBEDDING_MODEL, derive the flag, load the tokenizer,
\* compute the cache path
Start(p) ==
    /\ pc[p] = "idle"
    /\ \E name \in ModelIds :
        /\ model_name' = [model_name EXCEPT ![p] = name]
        /\ USE_E5_PREFIX' = [USE_E5_PREFIX EXCEPT ![p] = UseE5Prefix(name)]
        /\ tokenizer' = [tokenizer EXCEPT ![p] = name]
        /\ onnx_path' = [onnx_path EXCEPT ![p] = OnnxPath(name)]
    /\ seen' = [seen EXCEPT ![p] = persisted]
    /\ pc' = [pc EXCEPT ![p] = "check"]
    /\ UNCHANGED <<model, fs, saved, read, conversions, persisted, killed>>
    /\ UNCHANGED <<serveVars, poolVars>>

\* line 27
Check(p) ==
    /\ pc[p] = "check"
    /\ pc' = [pc EXCEPT ![p] = IF CachePresent(p) THEN "load" ELSE "convert"]
    /\ UNCHANGED <<model_name, USE_E5_PREFIX, tokenizer, onnx_path, model, fs,
                   saved, read, conversions, persisted, seen, killed>>
    /\ UNCHANGED <<serveVars, poolVars>>

\* line 29: from_pretrained(onnx_path) reads the directory as it is now, and
\* raises when a file is missing
Load(p) ==
    /\ pc[p] = "load"
    /\ LET files == IF Exists(onnx_path[p]) THEN fs[onnx_path[p]] ELSE EmptyDir
       IN /\ read' = [read EXCEPT ![p] = files]
          /\ IF Complete(files)
             THEN /\ model' = [model EXCEPT ![p] = files]
                  /\ pc' = [pc EXCEPT ![p] = "ready"]
             ELSE /\ model' = model
                  /\ pc' = [pc EXCEPT ![p] = "aborted"]
    /\ UNCHANGED <<model_name, USE_E5_PREFIX, tokenizer, onnx_path, fs, saved,
                   conversions, persisted, seen, killed>>
    /\ UNCHANGED <<serveVars, poolVars>>

\* line 32: from_pretrained(model_name, export=True)
Convert(p) ==
    /\ pc[p] = "convert"
    /\ model' = [model EXCEPT ![p] = Artifact(model_name[p])]
    /\ conversions' = [conversions EXCEPT ![p] = @ + 1]
    /\ pc' = [pc EXCEPT ![p] = "makedirs"]
    /\ UNCHANGED <<model_name, USE_E5_PREFIX, tokenizer, onnx_path, fs, saved,
                   read, persisted, seen, killed>>
    /\ UNCHANGED <<serveVars, poolVars>>

\* line 33: os.makedirs(onnx_path, exist_ok=True)
Makedirs(p) ==
    /\ pc[p] = "makedirs"
    /\ fs' = IF Exists(onnx_path[p]) THEN fs ELSE fs @@ (onnx_path[p] :> EmptyDir)
    /\ pc' = [pc EXCEPT ![p] = "save"]
    /\ UNCHANGED <<model_name, USE_E5_PREFIX, tokenizer, onnx_path, model, saved,
                   read, conversions, persisted, seen, killed>>
    /\ UNCHANGED <<serveVars, poolVars>>

\* line 34: model.save_pretrained(onnx_path) writes its files one after another
SaveFile(p) ==
    /\ pc[p] = "save"
    /\ saved[p] < NFiles
    /\ fs' = [fs EXCEPT ![onnx_path[p]][saved[p] + 1] = model[p][saved[p] + 1]]
    /\ saved' = [saved EXCEPT ![p] = @ + 1]
    /\ UNCHANGED <<pc, model_name, USE_E5_PREFIX, tokenizer, onnx_path, model,
                   read, conversions, persisted, seen, killed>>
    /\ UNCHANGED <<serveVars, poolVars>>

\* line 35: save_pretrained has returned
Cached(p) ==
    /\ pc[p] = "save"
    /\ saved[p] = NFiles
    /\ persisted' = persisted \cup {<<model_name[p], onnx_path[p]>>}
    /\ pc' = [pc EXCEPT ![p] = "ready"]
    /\ UNCHANGED <<model_name, USE_E5_PREFIX, tokenizer, onnx_path, model, fs,
                   saved, read, conversions, seen, killed>>
    /\ UNCHANGED <<serveVars, poolVars>>

\* the process is killed, or a statement of lines 22-34 raises: the startup
\* aborts where it stands and leaves the cache directory as it is
Abort(p) ==
    /\ pc[p] \in {"check", "load", "convert", "makedirs", "save"}
    /\ pc' = [pc EXCEPT ![p] = "aborted"]
    /\ killed' = killed \cup {p}
    /\ UNCHANGED <<model_name, USE_E5_PREFIX, tokenizer, onnx_path, model, fs,
                   saved, read, conversions, persisted, seen>>
    /\ UNCHANGED <<serveVars, poolVars>>

Next ==
    \E p \in Procs :
        \/ Start(p)
        \/ Check(p)
        \/ Load(p)
        \/ Convert(p)
        \/ Makedirs(p)
        \/ SaveFile(p)
        \/ Cached(p)
        \/ Abort(p)

Spec == Init /\ [][Next]_vars

(***************************************************************************)
(* JSON request bodies, as request.get_json() returns them: None, a str, a *)
(* list or a dict.  The bodies the model draws hold no nested dicts.       *)
(***************************************************************************)
JNull == [kind |-> "null"]
JStr(s) == [kind |-> "str", s |-> s]
JList(l) == [kind |-> "list", l |-> l]
JObj(o) == [kind |-> "obj", o |-> o]

K_text == <<"t", "e", "x", "t">>
K_texts == <<"t", "e", "x", "t", "s">>
K_text1 == <<"t", "e", "x", "t", "1">>
K_text2 == <<"t", "e", "x", "t", "2">>
K_prefix == <<"p", "r", "e", "f", "i", "x">>
S_passage == <<"p", "a", "s", "s", "a", "g", "e">>
S_query == <<"q", "u", "e", "r", "y">>
S_None == <<"N", "o", "n", "e">>

\* key in data, for the kinds that have `in` (dict: a key of it, list: an
\* item of it, str: a substring of it)
PyIn(key, data) ==
    CASE data.kind = "obj" -> key \in DOMAIN data.o
      [] data.kind = "list" -> \E i \in 1..Len(data.l) : data.l[i] = JStr(key)
      [] data.kind = "str" -> Contains(data.s, key)
      [] OTHER -> FALSE

\* key in data raises TypeError (None is not iterable)
PyInRaises(data) == data.kind = "null"

\* data[key] raises (TypeError on a list or a str, KeyError on a dict)
SubscriptRaises(data, key) == data.kind # "obj" \/ key \notin DOMAIN data.o

\* len(v)
PyLen(v) == IF v.kind = "list" THEN Len(v.l) ELSE Len(v.s)

\* for s in v
Iterable(v) == v.kind \in {"list", "str"}
Iter(v) == IF v.kind = "list" THEN v.l ELSE [i \in 1..Len(v.s) |-> JStr(<<v.s[i]>>)]

\* f"{v}"
Str(v) == IF v.kind = "str" THEN v.s ELSE S_None

(***************************************************************************)
(* Numbers.  The tensors hold integers; a quotient is a fraction <<n, d>>  *)
(* in lowest terms with d > 0, so equal values are equal tuples.           *)
(***************************************************************************)
Abs(x) == IF x < 0 THEN -x ELSE x

RECURSIVE Gcd(_, _)
Gcd(a, b) == IF b = 0 THEN a ELSE Gcd(b, a % b)

Rat(n, d) ==
    LET g == Gcd(Abs(n), Abs(d))
        s == IF d < 0 THEN -1 ELSE 1
    IN <<(s * n) \div g, (s * d) \div g>>

RatAdd(x, y) == Rat(x[1] * y[2] + y[1] * x[2], x[2] * y[2])
RatMul(x, y) == Rat(x[1] * y[1], x[2] * y[2])
RatDiv(x, y) == Rat(x[1] * y[2], x[2] * y[1])
Zero == <<0, 1>>

RECURSIVE SumInts(_)
SumInts(s) == IF s = <<>> THEN 0 ELSE Head(s) + SumInts(Tail(s))

RECURSIVE SumRats(_)
SumRats(s) == IF s = <<>> THEN Zero ELSE RatAdd(Head(s), SumRats(Tail(s)))

\* lines 45 and 52: a_min=1e-9
EpsDen == 1000000000
Eps == <<1, EpsDen>>

\* x < 1e-9, without forming x * 10^9
BelowEps(x) == x[1] <= 0 \/ EpsDen <= (x[2] - 1) \div x[1]

\* np.clip(x, a_min=1e-9, a_max=None)
Clip(x) == IF BelowEps(x) THEN Eps ELSE x

(***************************************************************************)
(* Pooling and normalisation (lines 40-52).  A tensor [batch, seq, hidden] *)
(* is a sequence of rows, a row a sequence of token vectors.               *)
(***************************************************************************)
HiddenOf(token_embeddings_) ==
    IF token_embeddings_ = <<>> \/ token_embeddings_[1] = <<>>
    THEN 0 ELSE Len(token_embeddings_[1][1])

\* lines 42-46, the plain mean over the sequence axis instead
mean_pooling_unmasked(token_embeddings_, attention_mask_) ==
    [b \in 1..Len(token_embeddings_) |->
        [j \in 1..HiddenOf(token_embeddings_) |->
            RatDiv(<<SumInts([i \in 1..Len(token_embeddings_[b]) |->
                                token_embeddings_[b][i][j]]), 1>>,
                   Clip(<<Len(attention_mask_[b]), 1>>))]]

\* lines 40-46
mean_pooling(token_embeddings_, attention_mask_) ==
    [b \in 1..Len(token_embeddings_) |->
        [j \in 1..HiddenOf(token_embeddings_) |->
            LET sum_embeddings ==
                    SumInts([i \in 1..Len(token_embeddings_[b]) |->
                                token_embeddings_[b][i][j] * attention_mask_[b][i]])
                sum_mask == Clip(<<SumInts(attention_mask_[b]), 1>>)
            IN RatDiv(<<sum_embeddings, 1>>, sum_mask)]]

\* lines 49-52.  A row v / clip(|v|) is kept as v with |v|^2, the norm being
\* irrational in general.
normalize(embeddings) ==
    [b \in 1..Len(embeddings) |->
        [v |-> embeddings[b],
         n2 |-> SumRats([j \in 1..Len(embeddings[b]) |->
                            RatMul(embeddings[b][j], embeddings[b][j])])]]

\* line 131: float(np.dot(emb1[0], emb2[0])) of two normalised rows, kept as
\* its sign and its square.  A nonzero row of the model has a norm far above
\* 1e-9, and a zero row divided by the clipped norm is zero.
Dot(e1, e2) ==
    LET num == SumRats([j \in 1..Len(e1.v) |-> RatMul(e1.v[j], e2.v[j])])
    IN IF num[1] = 0
       THEN [sign |-> 0, sq |-> Zero]
       ELSE [sign |-> IF num[1] < 0 THEN -1 ELSE 1,
             sq |-> RatDiv(RatMul(num, num), RatMul(e1.n2, e2.n2))]

(***************************************************************************)
(* The tokenizer and the ONNX model are libraries.  The model of them: one *)
(* token per character after a [CLS] token, truncation at max_length,      *)
(* padding to the longest row of the batch; a hidden state per token that  *)
(* is fixed by the loaded artifact and the token.                          *)
(***************************************************************************)
\* line 68
MaxLength == 512

Vocab == <<"[PAD]", "[CLS]", "a", "b", "q", "u", "e", "r", "y", "p", "s", "g",
           ":", " ", "N", "o", "n", "m", "/", "_", "5", "E">>
Code(c) == CHOOSE i \in 1..Len(Vocab) : Vocab[i] = c

Tokens(s) ==
    LET t == <<"[CLS]">> \o s
    IN IF Len(t) > MaxLength THEN SubSeq(t, 1, MaxLength) ELSE t

RECURSIVE MaxLen(_)
MaxLen(rows) ==
    IF rows = <<>> THEN 0
    ELSE LET m == MaxLen(Tail(rows))
         IN IF Len(Head(rows)) > m THEN Len(Head(rows)) ELSE m

\* lines 64-70: tokenizer(prefixed, padding=True, truncation=True,
\* max_length=512, return_tensors='np').  A str is one row.
TokenizerAccepts(prefixed) ==
    \/ prefixed.kind = "str"
    \/ /\ prefixed.kind = "list"
       /\ \A i \in 1..Len(prefixed.l) : prefixed.l[i].kind = "str"

Encode(prefixed) ==
    LET texts == IF prefixed.kind = "str" THEN <<prefixed.s>>
                 ELSE [i \in 1..Len(prefixed.l) |-> prefixed.l[i].s]
        rows == [i \in 1..Len(texts) |-> Tokens(texts[i])]
        width == MaxLen(rows)
    IN [input_ids |->
            [b \in 1..Len(rows) |->
                [i \in 1..width |-> IF i <= Len(rows[b]) THEN rows[b][i] ELSE "[PAD]"]],
        attention_mask |->
            [b \in 1..Len(rows) |->
                [i \in 1..width |-> IF i <= Len(rows[b]) THEN 1 ELSE 0]]]

Seed(artifact) ==
    SumInts([i \in 1..Len(artifact[NFiles]) |-> i * Code(artifact[NFiles][i])])

Weight(artifact, token) ==
    <<((Seed(artifact) + Code(token)) % 3) - 1,
      ((Seed(artifact) + Code(token) \div 3) % 3) - 1>>

\* lines 73-76: outputs.last_hidden_state
Infer(artifact, input_ids) ==
    [b \in 1..Len(input_ids) |->
        [i \in 1..Len(input_ids[b]) |-> Weight(artifact, input_ids[b][i])]]

\* embeddings.shape[1]
Dimension(artifact) == Len(Weight(artifact, "[PAD]"))

(***************************************************************************)
(* The pipeline and the handlers (lines 55-139), as functions of the       *)
(* process's globals and the request.  `fault` says whether the tokenizer  *)
(* or the model raises in this call.  An empty batch passes through as     *)
(* zero rows unless the library raises on it, which is the fault.          *)
(***************************************************************************)
Raised(e, handed) == [raised |-> TRUE, exc |-> e, tokenized |-> handed]
NoException == ""

\* lines 57-61 with the prefix added whatever USE_E5_PREFIX says
PrefixedAlways(p, sentences, prefix) ==
    IF Iterable(sentences)
    THEN JList([i \in 1..Len(Iter(sentences)) |->
                  JStr(Str(prefix) \o <<":", " ">> \o Str(Iter(sentences)[i]))])
    ELSE sentences

\* lines 57-61
Prefixed(p, sentences, prefix) ==
    IF USE_E5_PREFIX[p]
    THEN JList([i \in 1..Len(Iter(sentences)) |->
                  JStr(Str(prefix) \o <<":", " ">> \o Str(Iter(sentences)[i]))])
    ELSE sentences

\* lines 55-82
get_embeddings(p, sentences, prefix, fault) ==
    IF USE_E5_PREFIX[p] /\ ~Iterable(sentences)
    THEN Raised("TypeError", <<>>)
    ELSE LET prefixed == Prefixed(p, sentences, prefix)
         IN IF ~TokenizerAccepts(prefixed) THEN Raised("ValueError", <<prefixed>>)
            ELSE IF fault THEN Raised("InferenceFailure", <<prefixed>>)
            ELSE LET encoded == Encode(prefixed)
                     outputs == Infer(model[p], encoded.input_ids)
                     embeddings == mean_pooling(outputs, encoded.attention_mask)
                 IN [raised |-> FALSE,
                     exc |-> NoException,
                     tokenized |-> <<prefixed>>,
                     embeddings |-> normalize(embeddings)]

Call(sentences, prefix, r) ==
    [sentences |-> sentences, prefix |-> prefix, tokenized |-> r.tokenized,
     raised |-> r.raised, exc |-> r.exc]

\* an exception no handler catches: Flask answers 500 with its own page
Unhandled == [status |-> 500, page |-> "Internal Server Error"]

\* lines 105 and 126
BadRequest(message) == [status |-> 400, error |-> message]

\* lines 116-117 and 138-139, without the try: the exception leaves the handler
Propagate(e) == Unhandled

\* lines 116-117 and 138-139: except Exception as e
OnException(e) == [status |-> 500, error |-> e]

\* lines 95-117
embed(p, data, fault) ==
    IF PyInRaises(data) THEN [resp |-> Unhandled, calls |-> <<>>]
    ELSE IF ~(PyIn(K_text, data) \/ PyIn(K_texts, data))
    THEN [resp |-> BadRequest("Missing 'text' or 'texts' in request body"),
          calls |-> <<>>]
    ELSE LET key == IF PyIn(K_text, data) THEN K_text ELSE K_texts
         IN IF SubscriptRaises(data, key) THEN [resp |-> Unhandled, calls |-> <<>>]
            ELSE LET texts == IF key = K_text THEN JList(<<data.o[K_text]>>)
                              ELSE data.o[K_texts]
                     prefix == IF K_prefix \in DOMAIN data.o THEN data.o[K_prefix]
                               ELSE JStr(S_passage)
                     r == get_embeddings(p, texts, prefix, fault = 1)
                 IN IF r.raised
                    THEN [resp |-> OnException(r.exc),
                          calls |-> <<Call(texts, prefix, r)>>]
                    ELSE [resp |-> [status |-> 200,
                                    embeddings |-> r.embeddings,
                                    dimension |-> Dimension(model[p]),
                                    count |-> PyLen(texts)],
                          calls |-> <<Call(texts, prefix, r)>>]

\* lines 120-139
similarity(p, data, fault) ==
    IF PyInRaises(data) THEN [resp |-> Unhandled, calls |-> <<>>]
    ELSE IF ~PyIn(K_text1, data) \/ ~PyIn(K_text2, data)
    THEN [resp |-> BadRequest("Missing 'text1' or 'text2' in request body"),
          calls |-> <<>>]
    ELSE IF SubscriptRaises(data, K_text1)
    THEN [resp |-> OnException("TypeError"), calls |-> <<>>]
    ELSE LET s1 == JList(<<data.o[K_text1]>>)
             s2 == JList(<<data.o[K_text2]>>)
             r1 == get_embeddings(p, s1, JStr(S_query), fault = 1)
             r2 == get_embeddings(p, s2, JStr(S_passage), fault = 2)
             c1 == Call(s1, JStr(S_query), r1)
             c2 == Call(s2, JStr(S_passage), r2)
         IN IF r1.raised THEN [resp |-> OnException(r1.exc), calls |-> <<c1>>]
            ELSE IF r2.raised THEN [resp |-> OnException(r2.exc), calls |-> <<c1, c2>>]
            ELSE [resp |-> [status |-> 200,
                            similarity |-> Dot(r1.embeddings[1], r2.embeddings[1]),
                            text1 |-> data.o[K_text1],
                            text2 |-> data.o[K_text2]],
                  calls |-> <<c1, c2>>]

\* lines 85-92
health(p) ==
    [status |-> 200, model |-> model_name[p], runtime |-> "onnx",
     e5_prefix_mode |-> USE_E5_PREFIX[p]]

(***************************************************************************)
(* The requests the model draws.                                           *)
(***************************************************************************)
MaxTexts == 2

SeqsUpTo(S, n) == UNION { [1..k -> S] : k \in 0..n }

Texts == {<<"a">>, <<"b">>}
TextVals == { JStr(t) : t \in Texts } \cup {JNull}
TextsVals ==
    { JList(l) : l \in SeqsUpTo({ JStr(t) : t \in Texts }, MaxTexts) }
        \cup {JStr(<<"a">>), JStr(<<"a", "b">>), JNull}
PrefixVals == {JStr(S_query), JStr(S_passage)}

\* a key that is absent, or present with one of the values
Field(key, values) == {<<>>} \cup { key :> v : v \in values }

EmbedBodies ==
    { JObj(a @@ b @@ c) : a \in Field(K_text, TextVals),
                          b \in Field(K_texts, TextsVals),
                          c \in Field(K_prefix, PrefixVals) }
        \cup {JNull, JStr(<<"a">>), JList(<<JStr(K_text)>>)}

SimilarityBodies ==
    { JObj(a @@ b) : a \in Field(K_text1, TextVals), b \in Field(K_text2, TextVals) }
        \cup {JNull, JStr(<<"a">>), JList(<<JStr(K_text1), JStr(K_text2)>>)}

(***************************************************************************)
(* Serving: a process that finished its startup takes a request off the    *)
(* wire (Flask's routing, lines 85, 95, 120) and runs its handler.         *)
(***************************************************************************)
Pending == req.route # "none" /\ resp = NoResponse

Receive(p) ==
    /\ pc[p] = "ready"
    /\ ~Pending
    /\ \/ \E data \in EmbedBodies, fault \in 0..1 :
            req' = [route |-> "/embed", data |-> data, fault |-> fault]
       \/ \E data \in SimilarityBodies, fault \in 0..2 :
            req' = [route |-> "/similarity", data |-> data, fault |-> fault]
       \/ req' = [route |-> "/health"]
    /\ resp' = NoResponse
    /\ calls' = <<>>
    /\ UNCHANGED <<startVars, poolVars>>

HandleEmbed(p) ==
    /\ pc[p] = "ready"
    /\ Pending
    /\ req.route = "/embed"
    /\ LET r == embed(p, req.data, req.fault)
       IN /\ resp' = r.resp
          /\ calls' = r.calls
    /\ UNCHANGED <<req, startVars, poolVars>>

HandleSimilarity(p) ==
    /\ pc[p] = "ready"
    /\ Pending
    /\ req.route = "/similarity"
    /\ LET r == similarity(p, req.data, req.fault)
       IN /\ resp' = r.resp
          /\ calls' = r.calls
    /\ UNCHANGED <<req, startVars, poolVars>>

HandleHealth(p) ==
    /\ pc[p] = "ready"
    /\ Pending
    /\ req.route = "/health"
    /\ resp' = health(p)
    /\ calls' = <<>>
    /\ UNCHANGED <<req, startVars, poolVars>>

\* the first process has run lines 15-35 on an empty cache
InitServe ==
    \E name \in ModelIds :
        /\ pc = [p \in Procs |-> IF p = 1 THEN "ready" ELSE "idle"]
        /\ model_name = [p \in Procs |-> IF p = 1 THEN name ELSE NoName]
        /\ USE_E5_PREFIX = [p \in Procs |-> p = 1 /\ UseE5Prefix(name)]
        /\ tokenizer = [p \in Procs |-> IF p = 1 THEN name ELSE NoName]
        /\ onnx_path = [p \in Procs |-> IF p = 1 THEN OnnxPath(name) ELSE <<>>]
        /\ model = [p \in Procs |-> IF p = 1 THEN Artifact(name) ELSE NoModel]
        /\ fs = (OnnxPath(name) :> Artifact(name))
        /\ saved = [p \in Procs |-> IF p = 1 THEN NFiles ELSE 0]
        /\ read = [p \in Procs |-> NoRead]
        /\ conversions = [p \in Procs |-> IF p = 1 THEN 1 ELSE 0]
        /\ persisted = {<<name, OnnxPath(name)>>}
        /\ seen = [p \in Procs |-> {}]
        /\ killed = {}
        /\ req = NoRequest
        /\ resp = NoResponse
        /\ calls = <<>>
        /\ token_embeddings = <<>>
        /\ attention_mask = <<>>
        /\ pooled = NotCalled

NextServe ==
    \E p \in Procs :
        \/ Receive(p)
        \/ HandleEmbed(p)
        \/ HandleSimilarity(p)
        \/ HandleHealth(p)

SpecServe == InitServe /\ [][NextServe]_vars

(***************************************************************************)
(* mean_pooling on synthetic tensors: a batch of one or two rows of the    *)
(* same width, each row masked as the tokenizer pads it (ones, then        *)
(* zeros), the row that is all padding included.                           *)
(***************************************************************************)
MaxSeq == 3

TokenVecs == {<<0, 0>>, <<1, 1>>, <<3, 3>>}
BatchSizes == {1, 2}

\* the masks of width `width`: `real` ones, then zeros
Masks(width) == { [i \in 1..width |-> IF i <= real THEN 1 ELSE 0] : real \in 0..width }

InitPool ==
    /\ \E width \in 1..MaxSeq, batch \in BatchSizes :
        /\ token_embeddings \in [1..batch -> [1..width -> TokenVecs]]
        /\ attention_mask \in [1..batch -> Masks(width)]
    /\ pooled = NotCalled
    /\ pc = [p \in Procs |-> "idle"]
    /\ model_name = [p \in Procs |-> NoName]
    /\ USE_E5_PREFIX = [p \in Procs |-> FALSE]
    /\ tokenizer = [p \in Procs |-> NoName]
    /\ onnx_path = [p \in Procs |-> <<>>]
    /\ model = [p \in Procs |-> NoModel]
    /\ fs = <<>>
    /\ saved = [p \in Procs |-> 0]
    /\ read = [p \in Procs |-> NoRead]
    /\ conversions = [p \in Procs |-> 0]
    /\ persisted = {}
    /\ seen = [p \in Procs |-> {}]
    /\ killed = {}
    /\ req = NoRequest
    /\ resp = NoResponse
    /\ calls = <<>>

\* line 79, on the synthetic tensor
Pool ==
    /\ pooled = NotCalled
    /\ pooled' = [called |-> TRUE,
                  out |-> mean_pooling(token_embeddings, attention_mask)]
    /\ UNCHANGED <<token_embeddings, attention_mask, startVars, serveVars>>

NextPool == Pool

SpecPool == InitPool /\ [][NextPool]_vars

(***************************************************************************)
(* Claims about the startup code, checked under Spec.                      *)
(***************************************************************************)
Started(p) == pc[p] # "idle"
Finished(p) == pc[p] \in {"ready", "aborted"}
InStartup(p) == Started(p) /\ ~Finished(p)
PersistedBefore(p) == { e \in seen[p] : e[1] = model_name[p] }

\* C1: once a startup has converted and persisted a model name, every
\* startup that begins later with the same name computes the same cache path,
\* finds it present, reads its model from it, and converts nothing.
C1_IdempotentCaching ==
    \A p \in Procs :
        \A e \in PersistedBefore(p) :
            /\ onnx_path[p] = e[2]
            /\ conversions[p] = 0
            /\ pc[p] \in {"check", "load", "ready", "aborted"}
            /\ pc[p] \in {"load", "ready"} => Exists(onnx_path[p])
            /\ pc[p] = "ready" => read[p] # NoRead /\ model[p] = read[p]

C1_Witness ==
    \E p \in Procs :
        /\ PersistedBefore(p) # {}
        /\ pc[p] = "ready"
        /\ read[p] # NoRead
        /\ conversions[p] = 0

\* C5: when startups for one model name race and none is killed, no process
\* loads a partially written artifact, and once all have finished the cache
\* path holds one complete artifact.
C5_RaceNeverCorrupts ==
    (/\ killed = {}
     /\ \A p, q \in Procs : Started(p) /\ Started(q) => model_name[p] = model_name[q])
    =>
    /\ \A p \in Procs : read[p] # NoRead => Complete(read[p])
    /\ (\A p \in Procs : pc[p] = "ready")
        => \A p \in Procs : /\ Exists(onnx_path[p])
                            /\ fs[onnx_path[p]] = Artifact(model_name[p])

\* C8: two distinct model names never share a cache path, so no startup
\* takes the cached path on an artifact written for another name.
C8_OwnCacheDirectory ==
    /\ \A p, q \in Procs :
        Started(p) /\ Started(q) /\ model_name[p] # model_name[q]
            => onnx_path[p] # onnx_path[q]
    /\ \A p \in Procs :
        read[p] # NoRead
            => \A k \in 1..NFiles : read[p][k] \in {NoFile, model_name[p]}

\* C9: a cache path that exists holds a complete artifact whenever no startup
\* is at work on it, aborted startups included: a startup that takes the
\* cached path while no other is running finds a complete artifact.
C9_ExistingPathComplete ==
    \A p \in Procs :
        (pc[p] = "load" /\ \A q \in Procs \ {p} : ~InStartup(q))
            => /\ Exists(onnx_path[p])
               /\ Complete(fs[onnx_path[p]])

(***************************************************************************)
(* Claims about the handlers, checked under SpecServe.                     *)
(***************************************************************************)
Responded == req.route # "none" /\ resp # NoResponse
Server == CHOOSE p \in Procs : pc[p] = "ready"
HasField(data, key) == data.kind = "obj" /\ key \in DOMAIN data.o
IsError(r, status) == r.status = status /\ "error" \in DOMAIN r

\* C2: a POST /embed body with neither 'text' nor 'texts', and a POST
\* /similarity body without 'text1' or without 'text2', is answered 400 with
\* an error message, and get_embeddings is not called for it.
C2_ValidationShortCircuits ==
    Responded =>
        /\ (/\ req.route = "/embed"
            /\ ~HasField(req.data, K_text)
            /\ ~HasField(req.data, K_texts))
                => IsError(resp, 400) /\ calls = <<>>
        /\ (/\ req.route = "/similarity"
            /\ (~HasField(req.data, K_text1) \/ ~HasField(req.data, K_text2)))
                => IsError(resp, 400) /\ calls = <<>>

\* C3: a POST /embed whose 'texts' is the empty list is answered 400 and the
\* pipeline is not run on it.
C3_EmptyBatchRejected ==
    (/\ Responded
     /\ req.route = "/embed"
     /\ ~HasField(req.data, K_text)
     /\ HasField(req.data, K_texts)
     /\ req.data.o[K_texts] = JList(<<>>))
        => IsError(resp, 400) /\ calls = <<>>

\* C4: when get_embeddings raises during /embed or /similarity the request
\* is answered 500 with the exception's message, and no step of a handler
\* changes the process's globals (model, tokenizer, model_name,
\* USE_E5_PREFIX) or stops the process, so later requests are answered as if
\* the failing one had never been made.
PipelineRaised == calls # <<>> /\ calls[Len(calls)].raised
C4_Step ==
    /\ <<model, tokenizer, model_name, USE_E5_PREFIX, pc>>'
            = <<model, tokenizer, model_name, USE_E5_PREFIX, pc>>
    /\ (Responded /\ PipelineRaised)'
            => (IsError(resp, 500) /\ resp.error = calls[Len(calls)].exc)'
    /\ (Responded' /\ req'.route = "/embed")
            => resp' = embed(Server, req'.data, req'.fault).resp
    /\ (Responded' /\ req'.route = "/similarity")
            => resp' = similarity(Server, req'.data, req'.fault).resp
C4_FailureIsolated == [][C4_Step]_vars

C4_Witness ==
    /\ Responded
    /\ PipelineRaised
    /\ calls[Len(calls)].exc = "InferenceFailure"
    /\ resp.status = 500

\* C6: /similarity embeds text1 with prefix 'query' and text2 with prefix
\* 'passage'.  In prefix mode the tokenizer receives 'query: <text1>' and
\* 'passage: <text2>'; otherwise it receives both texts unmodified, and the
\* similarity of (a, b) equals that of (b, a).
Swapped(data) == JObj(K_text1 :> data.o[K_text2] @@ K_text2 :> data.o[K_text1])
TwoStrings(data) ==
    /\ HasField(data, K_text1) /\ data.o[K_text1].kind = "str"
    /\ HasField(data, K_text2) /\ data.o[K_text2].kind = "str"
Sep == <<":", " ">>
C6_PrefixRoles ==
    (Responded /\ req.route = "/similarity" /\ TwoStrings(req.data)) =>
        LET t1 == req.data.o[K_text1]
            t2 == req.data.o[K_text2]
        IN /\ Len(calls) >= 1
           /\ calls[1].prefix = JStr(S_query)
           /\ calls[1].tokenized =
                IF USE_E5_PREFIX[Server]
                THEN <<JList(<<JStr(S_query \o Sep \o t1.s)>>)>>
                ELSE <<JList(<<t1>>)>>
           /\ Len(calls) = 2 =>
                /\ calls[2].prefix = JStr(S_passage)
                /\ calls[2].tokenized =
                     IF USE_E5_PREFIX[Server]
                     THEN <<JList(<<JStr(S_passage \o Sep \o t2.s)>>)>>
                     ELSE <<JList(<<t2>>)>>
           /\ (resp.status = 200 /\ ~USE_E5_PREFIX[Server]) =>
                resp.similarity = similarity(Server, Swapped(req.data), 0).resp.similarity

\* a prefix-mode model for which the similarity of (a, b) differs from that
\* of (b, a)
C6_Witness ==
    /\ Responded /\ req.route = "/similarity" /\ TwoStrings(req.data)
    /\ USE_E5_PREFIX[Server]
    /\ resp.status = 200
    /\ calls[1].tokenized = <<JList(<<JStr(S_query \o Sep \o req.data.o[K_text1].s)>>)>>
    /\ resp.similarity # similarity(Server, Swapped(req.data), 0).resp.similarity

\* C10: in every 200 response of POST /embed, 'count' is the number of
\* vectors in 'embeddings' and the number of texts supplied: 1 for the
\* 'text' form, the length of 'texts' otherwise.
C10_CountMatchesEmbeddings ==
    (Responded /\ req.route = "/embed" /\ resp.status = 200) =>
        /\ resp.count = Len(resp.embeddings)
        /\ resp.count = IF HasField(req.data, K_text) THEN 1
                        ELSE PyLen(req.data.o[K_texts])

(***************************************************************************)
(* The claim about mean_pooling, checked under SpecPool.                   *)
(***************************************************************************)
RealPositions(mask) == { i \in 1..Len(mask) : mask[i] = 1 }

RECURSIVE SumAt(_, _, _)
SumAt(row, positions, j) ==
    IF positions = {} THEN 0
    ELSE LET i == CHOOSE x \in positions : TRUE
         IN row[i][j] + SumAt(row, positions \ {i}, j)

ExampleRow == <<<<1, 1>>, <<3, 3>>, <<0, 0>>>>
ExampleMask == <<1, 1, 0>>

\* C7: for every row of the batch, the pooled vector is the sum of the
\* hidden-state vectors at the positions whose mask is 1 divided by the number
\* of such positions (the zero vector when there is none), whatever the
\* values at the other positions; row i of the output belongs to row i of
\* the input; [[1,1],[3,3],[0,0]] with mask [1,1,0] pools to [2,2].
C7_MeanPoolingRealTokens ==
    pooled.called =>
        /\ Len(pooled.out) = Len(token_embeddings)
        /\ \A b \in 1..Len(token_embeddings) :
            LET real == RealPositions(attention_mask[b])
                n == Cardinality(real)
            IN /\ Len(pooled.out[b]) = Len(token_embeddings[b][1])
               /\ \A j \in 1..Len(pooled.out[b]) :
                    /\ pooled.out[b][j][2] > 0
                    /\ pooled.out[b][j][1] * (IF n = 0 THEN 1 ELSE n)
                         = SumAt(token_embeddings[b], real, j) * pooled.out[b][j][2]
               /\ (token_embeddings[b] = ExampleRow /\ attention_mask[b] = ExampleMask)
                    => pooled.out[b] = <<<<2, 1>>, <<2, 1>>>>

C7_Witness ==
    /\ pooled.called
    /\ Len(token_embeddings) = 2
    /\ token_embeddings[2] = ExampleRow
    /\ attention_mask[2] = ExampleMask
    /\ attention_mask[1] = <<1, 0, 0>>
    /\ token_embeddings[1] = <<<<3, 3>>, <<1, 1>>, <<3, 3>>>>
    /\ pooled.out = <<<<<<3, 1>>, <<3, 1>>>>, <<<<2, 1>>, <<2, 1>>>>>>

====
